---- MODULE Spec2Model ----
(***************************************************************************)
(* Model of processLogMavens.py: the chronological replay of Poker Mavens  *)
(* hands against the players / tables dictionaries, the end-of-hand sweep, *)
(* the summary (finalizer) loop and the final tally.                       *)
(*                                                                         *)
(* Money is counted in hundredths, the precision of the amounts the log    *)
(* prints, so "{0:.2f}".format(x) is exact and is modelled by fmt2.        *)
(* The hands are the entries of sorted(hands.keys(), key=DATETIME); the    *)
(* model produces them one after the other, with their lines.              *)
(***************************************************************************)
EXTENDS Integers, Sequences, FiniteSets, TLC

\* ---- bounds of the model -------------------------------------------------
MaxHands == 2      \* hands in the sorted hands dictionary
MaxLines == 2      \* event lines in the whole session
MaxBlocks == 2     \* hands in the text of the first file

\* ---- script level constants (lines 69-88) and configurable defaults ------
FIRST == "first"
LATEST == "latest"
LAST == "last"
CashIn == "cash in"
CashOut == "cash out"
WAITING == "sitting out"
LEFT == "left table"
COUNT == "count"
EARLIEST == "earliest"
STARTHANDS == "start hands"
SKIPPED == "skipped"
LOCALKEY == "local"     \* LOCAL in the script
TEXT == "text"
TABLE == "table"
DATETIME == "datetime"
POSITIVE_STATE == "is up"
NEGATIVE_STATE == "is down"

\* ---- the small input sets -------------------------------------------------
Names == {"Al", "Alice"}
Spell == ("Al" :> <<"A", "l">>) @@ ("Alice" :> <<"A", "l", "i", "c", "e">>)
TableNames == {"T1", "T2"}
Locals == {"1", "2"}
Amounts == {1, 2}       \* the stacks a seat line prints
Chips == {1}            \* the amounts of add-on, win and contribution lines

\* Python's None and the empty csv cell "" are the empty tuple, a value <<v>>.
None == <<>>
Some(v) == <<v>>
Cell(c) == IF c = <<>> THEN 0 ELSE c[1]

\* d[k] = v on a dictionary, adding the key when it is missing
SetKey(d, k, v) == [x \in (DOMAIN d) \cup {k} |-> IF x = k THEN v ELSE d[x]]

\* "{0:.2f}".format(x), x in hundredths
fmt2(x) == x

\* re.search(r"Seat \d+: " + re.escape(player), text) on one seat line of the
\* text: the pattern ends with the name, so it matches every seat line whose
\* player name starts with it.
seatSearch(player, seated) ==
    Len(Spell[player]) <= Len(Spell[seated])
    /\ SubSeq(Spell[seated], 1, Len(Spell[player])) = Spell[player]

\* one row of csvRows
Row(handTime, table, handNumber, player, action, amountIn, amountOut) ==
    [Time |-> handTime, Table |-> table, Hand |-> handNumber, Player |-> player,
     Action |-> action, AmountIn |-> amountIn, AmountOut |-> amountOut]

\* the value of a block of code: the players dictionary, its key order, the
\* rows appended to csvRows, the warnings printed, and the exception raised
Result(P, K, rows, warned, err) ==
    [players |-> P, keys |-> K, rows |-> rows, warned |-> warned, err |-> err]
NoError == "none"

\* ---- isNewPlayer (called with a table) ------------------------------------
newPair == (FIRST :> 0) @@ (CashIn :> 0) @@ (LATEST :> 0) @@ (CashOut :> 0) @@ (LEFT :> FALSE)

\* ---- faulty variants ------------------------------------------------------
\* Each is a block of the script with one fault planted; the property named
\* is expected to fail when the variant stands in for the block.

\* C7: every seat line is taken for a first one
isNewPlayer_m(P, K, check, table) ==
    LET P1 == IF check \notin DOMAIN P
              THEN SetKey(P, check, (CashIn :> 0) @@ (CashOut :> 0))
              ELSE P
        K1 == IF check \notin DOMAIN P THEN Append(K, check) ELSE K
    IN  [isNew |-> TRUE,
         players |-> [P1 EXCEPT ![check] = SetKey(@, table, newPair)],
         keys |-> K1]

\* C2: the buy-in is not added to the player's total
initialBuyIn_m(P, K, handTime, table, handNumber, player, stack) ==
    Result([P EXCEPT ![player][table][CashIn] = stack,
                     ![player][table][FIRST] = stack,
                     ![player][table][LATEST] = stack],
           K,
           <<Row(handTime, table, handNumber, player, "initial buy in", Some(stack), None)>>,
           0, NoError)

\* C6: the change of a waiting player's stack is warned about and not booked
waitingAdjust_m(P, K, handTime, table, handNumber, player, stack) ==
    Result([P EXCEPT ![player][table][LATEST] = stack], K, <<>>, 1, NoError)

\* C3: the stack is corrected without the ledger and without a row
consistencyAdjust_m(P, K, handTime, table, handNumber, player, stack) ==
    Result([P EXCEPT ![player][table][LATEST] = stack], K, <<>>, 1, NoError)

\* C8: the win is booked as cash in
potWin_m(P, K, table, player, win) ==
    IF ~(player \in DOMAIN P /\ table \in DOMAIN P[player])
    THEN Result(P, K, <<>>, 0, "KeyError")
    ELSE Result([P EXCEPT ![player][table][LATEST] = @ + win,
                          ![player][table][CashIn] = @ + win,
                          ![player][CashIn] = @ + win], K, <<>>, 0, NoError)

\* C1: the finalizer forgets the player's total
endedTable_m(P, T, table, player) ==
    LET amount == P[player][table][LATEST]
    IN  [players |->
            [P EXCEPT ![player][table][CashOut] = @ + amount,
                      ![player][table][LATEST] = 0,
                      ![player][table][LEFT] = TRUE],
         rows |-> <<Row(T[table][LATEST], table, T[table][LAST], player,
                        "ended table with", None, Some(amount))>>]

\* C5: the gate lets every hand through
startGate_m(T, t, localHandNumber, time, number) ==
    LET T1 == IF ~T[t][STARTHANDS]
              THEN [T EXCEPT ![t][EARLIEST] = Some(time), ![t][STARTHANDS] = TRUE]
              ELSE T
        T2 == [T1 EXCEPT ![t] = SetKey([@ EXCEPT ![COUNT] = @ + 1, ![LAST] = number],
                                       LATEST, Some(time))]
    IN  [tables |-> T2, skip |-> FALSE]

\* C13: an open gate does not stay open, every hand is put to the test
startGate_shut(T, t, localHandNumber, time, number) ==
    IF localHandNumber # "1"
    THEN [tables |-> [T EXCEPT ![t][SKIPPED] = @ + 1, ![t][STARTHANDS] = FALSE],
          skip |-> TRUE]
    ELSE [tables |-> [T EXCEPT ![t] = SetKey([@ EXCEPT ![COUNT] = @ + 1, ![LAST] = number,
                                                       ![EARLIEST] = Some(time),
                                                       ![STARTHANDS] = TRUE],
                                             LATEST, Some(time))],
          skip |-> FALSE]

\* C22: the stand-up is booked on the pair only, the player's total is left
stoodUp_m(P, handTime, table, handNumber, player) ==
    LET amount == P[player][table][LATEST]
    IN  [players |->
            [P EXCEPT ![player] = [@ EXCEPT ![table] =
                          SetKey([@ EXCEPT ![CashOut] = @ + amount,
                                           ![LATEST] = 0,
                                           ![LEFT] = TRUE], WAITING, TRUE)]],
         rows |-> <<Row(handTime, table, handNumber, player, "stood up with",
                        None, Some(amount))>>]

\* C26: the stand-up marks the player as having left every table
stoodUp_all(P, handTime, table, handNumber, player) ==
    LET amount == P[player][table][LATEST]
        closed == SetKey([P[player][table] EXCEPT ![CashOut] = @ + amount,
                                                  ![LATEST] = 0,
                                                  ![LEFT] = TRUE], WAITING, TRUE)
    IN  [players |->
            [P EXCEPT ![player] =
                [k \in DOMAIN P[player] |->
                    IF k = CashIn THEN P[player][k]
                    ELSE IF k = CashOut THEN P[player][k] + amount
                    ELSE IF k = table THEN closed
                    ELSE [P[player][k] EXCEPT ![LEFT] = TRUE]]],
         rows |-> <<Row(handTime, table, handNumber, player, "stood up with",
                        None, Some(amount))>>]

\* C20: the earliest time is written at every replayed hand
startGate_late(T, t, localHandNumber, time, number) ==
    IF ~T[t][STARTHANDS] /\ localHandNumber # "1"
    THEN [tables |-> [T EXCEPT ![t][SKIPPED] = @ + 1], skip |-> TRUE]
    ELSE [tables |-> [T EXCEPT ![t] = SetKey([@ EXCEPT ![COUNT] = @ + 1, ![LAST] = number,
                                                       ![EARLIEST] = Some(time),
                                                       ![STARTHANDS] = TRUE],
                                             LATEST, Some(time))],
          skip |-> FALSE]

\* C15: a pair made by the add-on line is booked as a first buy-in
addOn_m(P, K, handTime, table, handNumber, player, additional) ==
    IF player \in DOMAIN P /\ table \in DOMAIN P[player]
    THEN Result([P EXCEPT ![player][CashIn] = @ + additional,
                          ![player][table][CashIn] = @ + additional,
                          ![player][table][LATEST] = @ + additional],
                K,
                <<Row(handTime, table, handNumber, player, "add on", Some(additional), None)>>,
                0, NoError)
    ELSE Result(SetKey(P, player,
                       SetKey(IF player \in DOMAIN P THEN [P[player] EXCEPT
                                                               ![CashIn] = @ + additional]
                              ELSE (CashIn :> additional) @@ (CashOut :> 0),
                              table,
                              [newPair EXCEPT ![CashIn] = additional, ![FIRST] = additional,
                                              ![LATEST] = additional])),
                IF player \in DOMAIN P THEN K ELSE Append(K, player),
                <<Row(handTime, table, handNumber, player, "initial buy in",
                      Some(additional), None)>>,
                0, NoError)

isNewPlayer(P, K, check, table) ==
    LET P1 == IF check \notin DOMAIN P
              THEN SetKey(P, check, (CashIn :> 0) @@ (CashOut :> 0))
              ELSE P
        K1 == IF check \notin DOMAIN P THEN Append(K, check) ELSE K
        P2 == IF table \notin DOMAIN P1[check]
              THEN [P1 EXCEPT ![check] = SetKey(@, table, newPair)]
              ELSE P1
    IN  [isNew |-> (check \notin DOMAIN P) \/ (table \notin DOMAIN P1[check]),
         players |-> P2, keys |-> K1]

hasPair(P, player, table) == player \in DOMAIN P /\ table \in DOMAIN P[player]

\* ---- seat snapshot --------------------------------------------------------
\* lines 434-442: the new player branch
initialBuyIn(P, K, handTime, table, handNumber, player, stack) ==
    Result([P EXCEPT ![player][CashIn] = @ + stack,
                     ![player][table][CashIn] = stack,
                     ![player][table][FIRST] = stack,
                     ![player][table][LATEST] = stack],
           K,
           <<Row(handTime, table, handNumber, player, "initial buy in", Some(stack), None)>>,
           0, NoError)

\* lines 451-469: the player was waiting or had left
waitingAdjust(P, K, handTime, table, handNumber, player, stack) ==
    LET latest == P[player][table][LATEST]
    IN  IF stack > latest
        THEN LET adjustment == stack - latest
             IN  IF fmt2(adjustment) # fmt2(0)
                 THEN Result([P EXCEPT ![player][table][LATEST] = stack,
                                       ![player][table][CashIn] = @ + adjustment,
                                       ![player][CashIn] = @ + adjustment],
                             K,
                             <<Row(handTime, table, handNumber, player,
                                   "add on while waiting", Some(adjustment), None)>>,
                             0, NoError)
                 ELSE Result(P, K, <<>>, 0, NoError)
        ELSE LET adjustment == latest - stack
             IN  IF fmt2(adjustment) # fmt2(0)
                 THEN Result([P EXCEPT ![player][table][LATEST] = stack,
                                       ![player][table][CashOut] = @ + adjustment,
                                       ![player][CashOut] = @ + adjustment],
                             K,
                             <<Row(handTime, table, handNumber, player,
                                   "reduction while waiting", None, Some(adjustment))>>,
                             0, NoError)
                 ELSE Result(P, K, <<>>, 0, NoError)

\* lines 471-494: the player is active, the stack is not the expected one
consistencyAdjust(P, K, handTime, table, handNumber, player, stack) ==
    LET latest == P[player][table][LATEST]
    IN  IF fmt2(stack) # fmt2(latest)
        THEN LET adjustment == IF stack > latest THEN stack - latest ELSE latest - stack
                 action == IF fmt2(adjustment) = fmt2(0) THEN ""
                           ELSE IF stack > latest
                                THEN "adjusting for consistency - adding on "
                                ELSE "adjusting for consistency - deducting "
                 P1 == IF fmt2(adjustment) = fmt2(0) THEN P
                       ELSE IF stack > latest
                            THEN [P EXCEPT ![player][table][LATEST] = stack,
                                           ![player][table][CashIn] = @ + adjustment,
                                           ![player][CashIn] = @ + adjustment]
                            ELSE [P EXCEPT ![player][table][LATEST] = stack,
                                           ![player][table][CashOut] = @ + adjustment,
                                           ![player][CashOut] = @ + adjustment]
             IN  Result(P1, K,
                        IF fmt2(adjustment) # fmt2(0)
                        THEN <<Row(handTime, table, handNumber, player, action,
                                   Some(adjustment), None)>>
                        ELSE <<>>,
                        1, NoError)
        ELSE Result(P, K, <<>>, 0, NoError)

\* lines 497-503: the player is seated; waiting is read from the line
markSeated(P, player, table, sits) ==
    [P EXCEPT ![player] = [@ EXCEPT ![table] =
        SetKey([@ EXCEPT ![LEFT] = FALSE], WAITING, sits)]]

\* lines 428-503: one "Seat N: player (stack)" line
seatSnapshot(P, K, handTime, table, handNumber, player, stack, sits) ==
    LET new == isNewPlayer(P, K, player, table)
        P1 == new.players
        K1 == new.keys
        pair == P1[player][table]
        r == IF new.isNew
             THEN initialBuyIn(P1, K1, handTime, table, handNumber, player, stack)
             ELSE IF pair[LATEST] # stack
                  THEN IF WAITING \notin DOMAIN pair
                       THEN Result(P1, K1, <<>>, 0, "KeyError")
                       ELSE IF pair[WAITING] \/ pair[LEFT]
                            THEN waitingAdjust(P1, K1, handTime, table, handNumber, player, stack)
                            ELSE consistencyAdjust(P1, K1, handTime, table, handNumber, player, stack)
                  ELSE Result(P1, K1, <<>>, 0, NoError)
    IN  IF r.err # NoError THEN r
        ELSE [r EXCEPT !.players = markSeated(r.players, player, table, sits)]

\* ---- add-on, pot win, pot contribution -----------------------------------
\* lines 506-519: one "player adds N chip" line
addOn(P, K, handTime, table, handNumber, player, additional) ==
    LET new == isNewPlayer(P, K, player, table)
    IN  Result([new.players EXCEPT ![player][CashIn] = @ + additional,
                                   ![player][table][CashIn] = @ + additional,
                                   ![player][table][LATEST] = @ + additional],
               new.keys,
               <<Row(handTime, table, handNumber, player, "add on", Some(additional), None)>>,
               0, NoError)

\* lines 523-527: one "player wins ... Pot (N)" line
potWin(P, K, table, player, win) ==
    IF ~hasPair(P, player, table)
    THEN Result(P, K, <<>>, 0, "KeyError")
    ELSE Result([P EXCEPT ![player][table][LATEST] = @ + win], K, <<>>, 0, NoError)

\* lines 532-538: one "Rake ... Pot ... Players (name: N, ...)" line; potString
\* is the list of its (player, amount) entries, applied from the left
RECURSIVE potContribution(_, _, _, _)
potContribution(P, K, table, potString) ==
    IF potString = <<>>
    THEN Result(P, K, <<>>, 0, NoError)
    ELSE LET player == Head(potString).player
             amount == Head(potString).amount
         IN  IF ~hasPair(P, player, table)
             THEN Result(P, K, <<>>, 0, "KeyError")
             ELSE potContribution([P EXCEPT ![player][table][LATEST] = @ - amount],
                                  K, table, Tail(potString))

\* ---- end-of-hand sweep ----------------------------------------------------
\* line 544: the hand's text has a seat line the player's pattern matches
inSeats(player, seats) == \E s \in seats : seatSearch(player, s)

\* lines 546-554: the player stands up
stoodUp(P, handTime, table, handNumber, player) ==
    LET amount == P[player][table][LATEST]
    IN  [players |->
            [P EXCEPT ![player][CashOut] = @ + amount,
                      ![player] = [@ EXCEPT ![table] =
                          SetKey([@ EXCEPT ![CashOut] = @ + amount,
                                           ![LATEST] = 0,
                                           ![LEFT] = TRUE], WAITING, TRUE)]],
         rows |-> <<Row(handTime, table, handNumber, player, "stood up with",
                        None, Some(amount))>>]

\* lines 542-554: the loop over players.keys(), from position i
RECURSIVE sweep(_, _, _, _, _, _, _)
sweep(P, K, i, handTime, table, handNumber, seats) ==
    IF i > Len(K)
    THEN [players |-> P, rows |-> <<>>]
    ELSE LET player == K[i]
             hit == ~inSeats(player, seats)
                    /\ table \in DOMAIN P[player]
                    /\ ~P[player][table][LEFT]
             one == IF hit THEN stoodUp(P, handTime, table, handNumber, player)
                    ELSE [players |-> P, rows |-> <<>>]
             rest == sweep(one.players, K, i + 1, handTime, table, handNumber, seats)
         IN  [players |-> rest.players, rows |-> one.rows \o rest.rows]

\* ---- summary: the finalizer -----------------------------------------------
\* lines 576-585: the player is taken up from the table
endedTable(P, T, table, player) ==
    LET amount == P[player][table][LATEST]
    IN  [players |->
            [P EXCEPT ![player][CashOut] = @ + amount,
                      ![player][table][CashOut] = @ + amount,
                      ![player][table][LATEST] = 0,
                      ![player][table][LEFT] = TRUE],
         rows |-> <<Row(T[table][LATEST], table, T[table][LAST], player,
                        "ended table with", None, Some(amount))>>]

\* lines 574-585: the loop over players.keys() for one table, from position i
RECURSIVE finalize(_, _, _, _, _)
finalize(P, K, i, T, table) ==
    IF i > Len(K)
    THEN [players |-> P, rows |-> <<>>]
    ELSE LET player == K[i]
             hit == table \in DOMAIN P[player] /\ ~P[player][table][LEFT]
             one == IF hit THEN endedTable(P, T, table, player)
                    ELSE [players |-> P, rows |-> <<>>]
             rest == finalize(one.players, K, i + 1, T, table)
         IN  [players |-> rest.players, rows |-> one.rows \o rest.rows]

\* ---- final tally ----------------------------------------------------------
\* lines 599-624: the csvBalances row of one player
balanceRow(P, player) ==
    LET cashIn == P[player][CashIn]
        cashOut == P[player][CashOut]
    IN  IF cashIn = cashOut
        THEN [Player |-> player, Disposition |-> POSITIVE_STATE, Amount |-> 0]
        ELSE IF cashIn > cashOut
             THEN [Player |-> player, Disposition |-> NEGATIVE_STATE,
                   Amount |-> cashIn - cashOut]
             ELSE [Player |-> player, Disposition |-> POSITIVE_STATE,
                   Amount |-> cashOut - cashIn]

\* lines 587-624: what the players K[i..] add to netBalance
RECURSIVE tally(_, _, _)
tally(P, K, i) ==
    IF i > Len(K) THEN 0
    ELSE LET cashIn == P[K[i]][CashIn]
             cashOut == P[K[i]][CashOut]
             diff == IF cashIn > cashOut THEN cashIn - cashOut
                     ELSE IF cashIn < cashOut THEN 0 - (cashOut - cashIn)
                     ELSE 0
         IN  diff + tally(P, K, i + 1)

\* ---- the state ------------------------------------------------------------
VARIABLES
    pc,             \* "replay" (between hands), "lines" (in a hand's text), "summary",
                    \* "done", "crashed" (an exception ended the run)
    skipPriorHands, \* args.skipPriorHands
    tables,         \* the tables dictionary, as extraction leaves it
    tableKeys,      \* its keys in insertion order
    players,        \* the players dictionary (without the notes)
    playerKeys,     \* its keys in insertion order
    csvRows,        \* the transaction rows
    warnings,       \* number of "Inconsistent state" lines printed
    nHands,         \* hands of the sorted list taken so far
    handNumber, handTime, table,   \* the globals of the replay loop
    seats,          \* players of the seat lines read in the current hand's text
    nLines,         \* event lines read so far
    sumIndex,       \* position of the summary loop in tableKeys
    csvBalances, netBalance,
    \* history, not read by any operation:
    last,           \* the step just taken and its input
    prev,           \* players, csvRows, warnings, tables and pc before that step
    wins, contribs, \* per (player, table): pot wins and contributions applied
    lastSeats,      \* per table: the seat-line players of its last replayed hand
    seen1, before1, \* per table, when hands are skipped: a hand with local number "1"
                    \* was met; the number of hands met before it
    book,           \* per table: the hands met and replayed, the times of the first and
                    \* of the last one replayed, the number of the last one replayed
    \* the first pass, lines 364-391, and the sorted list of line 403:
    files,          \* filesToProcess, each file the sequence of its lines
    fileNo,         \* files read so far
    hands,          \* the hands dictionary
    handKeys,       \* its keys in insertion order
    order,          \* sorted(hands.keys(), key=DATETIME)
    nReplayed       \* entries of order the replay loop has taken

vars == <<pc, skipPriorHands, tables, tableKeys, players, playerKeys, csvRows, warnings,
          nHands, handNumber, handTime, table, seats, nLines, sumIndex, csvBalances,
          netBalance, last, prev, wins, contribs, lastSeats, seen1, before1, book,
          files, fileNo, hands, handKeys, order, nReplayed>>
\* the variables of the first pass and of the sorted list
xvars == <<files, fileNo, hands, handKeys, order, nReplayed>>

Pairs == Names \X TableNames

\* history of one table's hands in the replay loop
NoBook == [met |-> 0, replayed |-> 0, first |-> None, latest |-> None, number |-> ""]
Booked(b, skip, time, number) ==
    IF skip THEN [b EXCEPT !.met = @ + 1]
    ELSE [met |-> b.met + 1, replayed |-> b.replayed + 1,
          first |-> IF b.replayed = 0 THEN Some(time) ELSE b.first,
          latest |-> Some(time), number |-> number]
NoTable == "(no Table line)"

\* the table dictionary lines 383-387 create
newTable(startHands) ==
    (COUNT :> 0) @@ (EARLIEST :> None) @@ (LAST :> "") @@ (STARTHANDS :> startHands)
    @@ (SKIPPED :> 0)

TableOrders == {<<"T1">>, <<"T1", "T2">>}
PotStrings ==
    {<<e>> : e \in [player : Names, amount : Chips]}
    \cup {<<e, f>> : e \in [player : {"Al"}, amount : Chips],
                     f \in [player : {"Alice"}, amount : Chips]}
    \cup {<<[player |-> "Al", amount |-> 3]>>}

Step(op, player, amount, sits, local, pot) ==
    [op |-> op, player |-> player, amount |-> amount, sits |-> sits, local |-> local,
     pot |-> pot]
Snapshot ==
    [players |-> players, rows |-> Len(csvRows), warnings |-> warnings, tables |-> tables,
     pc |-> pc, table |-> table, lastSeats |-> lastSeats]

Init ==
    /\ pc = "replay"
    /\ skipPriorHands \in BOOLEAN
    /\ tableKeys \in TableOrders
    /\ tables = [t \in {tableKeys[i] : i \in DOMAIN tableKeys} |-> newTable(~skipPriorHands)]
    /\ players = <<>>
    /\ playerKeys = <<>>
    /\ csvRows = <<>>
    /\ warnings = 0
    /\ nHands = 0
    /\ handNumber = ""
    /\ handTime = 0
    /\ table = ""
    /\ seats = {}
    /\ nLines = 0
    /\ sumIndex = 1
    /\ csvBalances = <<>>
    /\ netBalance = 0
    /\ last = Step("init", "", 0, FALSE, "", <<>>)
    /\ prev = [players |-> <<>>, rows |-> 0, warnings |-> 0, tables |-> tables,
               pc |-> "replay", table |-> "", lastSeats |-> [t \in TableNames |-> {}]]
    /\ lastSeats = [t \in TableNames |-> {}]
    /\ wins = [x \in Pairs |-> 0]
    /\ contribs = [x \in Pairs |-> 0]
    /\ seen1 = [t \in TableNames |-> FALSE]
    /\ before1 = [t \in TableNames |-> 0]
    /\ book = [t \in TableNames |-> NoBook]
    /\ files = <<>>
    /\ fileNo = 0
    /\ hands = <<>>
    /\ handKeys = <<>>
    /\ order = <<>>
    /\ nReplayed = 0

\* ---- the replay loop, lines 403-423 ---------------------------------------
\* lines 410-423 on the tables dictionary: the gate, then the bookkeeping
startGate(T, t, localHandNumber, time, number) ==
    IF ~T[t][STARTHANDS] /\ localHandNumber # "1"
    THEN [tables |-> [T EXCEPT ![t][SKIPPED] = @ + 1], skip |-> TRUE]
    ELSE LET T1 == IF ~T[t][STARTHANDS]
                   THEN [T EXCEPT ![t][EARLIEST] = Some(time), ![t][STARTHANDS] = TRUE]
                   ELSE T
             T2 == [T1 EXCEPT ![t] = SetKey([@ EXCEPT ![COUNT] = @ + 1, ![LAST] = number],
                                            LATEST, Some(time))]
             T3 == IF T2[t][EARLIEST] = None THEN [T2 EXCEPT ![t][EARLIEST] = Some(time)]
                   ELSE T2
         IN  [tables |-> T3, skip |-> FALSE]

NextTimes == {handTime + 1}

StartHand ==
    /\ pc = "replay"
    /\ nHands < MaxHands
    /\ \E t \in (DOMAIN tables) \cup {NoTable}, time \in NextTimes :
        /\ nHands' = nHands + 1
        /\ handNumber' = ToString(nHands + 1)
        /\ handTime' = time
        /\ prev' = Snapshot
        /\ seats' = {}
        /\ IF t = NoTable
           THEN \* hands[handNumber][TABLE] raises KeyError at line 406
                /\ pc' = "crashed"
                /\ last' = Step("start", "", 0, FALSE, "", <<>>)
                /\ UNCHANGED <<table, tables, seen1, before1, book>>
           ELSE \E localHandNumber \in Locals :
                LET g == startGate(tables, t, localHandNumber, time, ToString(nHands + 1))
                IN  /\ table' = t
                    /\ tables' = g.tables
                    /\ pc' = IF g.skip THEN "replay" ELSE "lines"
                    /\ last' = Step("start", "", 0, FALSE,
                                    IF skipPriorHands THEN localHandNumber ELSE "", <<>>)
                    /\ seen1' = [seen1 EXCEPT ![t] =
                                    @ \/ (skipPriorHands /\ localHandNumber = "1")]
                    /\ before1' = [before1 EXCEPT ![t] =
                                      IF skipPriorHands /\ ~seen1[t] /\ localHandNumber # "1"
                                      THEN @ + 1 ELSE @]
                    /\ book' = [book EXCEPT ![t] =
                                   Booked(@, g.skip, time, ToString(nHands + 1))]
    /\ UNCHANGED <<skipPriorHands, tableKeys, players, playerKeys, csvRows, warnings, nLines,
                   sumIndex, csvBalances, netBalance, wins, contribs, lastSeats>>
    /\ UNCHANGED xvars

\* what a line's block leaves: the dictionaries, the rows, or the crash
Apply(r) ==
    /\ players' = r.players
    /\ playerKeys' = r.keys
    /\ csvRows' = csvRows \o r.rows
    /\ warnings' = warnings + r.warned
    /\ pc' = IF r.err = NoError THEN "lines" ELSE "crashed"
    /\ nLines' = nLines + 1
    /\ prev' = Snapshot
    /\ UNCHANGED <<skipPriorHands, tables, tableKeys, nHands, handNumber, handTime, table,
                   sumIndex, csvBalances, netBalance, lastSeats, seen1, before1, book>>
    /\ UNCHANGED xvars

SeatLine ==
    /\ pc = "lines"
    /\ nLines < MaxLines
    /\ \E player \in Names, stack \in Amounts, sits \in BOOLEAN :
        /\ Apply(seatSnapshot(players, playerKeys, handTime, table, handNumber,
                              player, stack, sits))
        /\ seats' = seats \cup {player}
        /\ last' = Step("seat", player, stack, sits, "", <<>>)
    /\ UNCHANGED <<wins, contribs>>

AddOnLine ==
    /\ pc = "lines"
    /\ nLines < MaxLines
    /\ \E player \in Names, additional \in Chips :
        /\ Apply(addOn(players, playerKeys, handTime, table, handNumber, player, additional))
        /\ last' = Step("add on", player, additional, FALSE, "", <<>>)
    /\ UNCHANGED <<seats, wins, contribs>>

WinLine ==
    /\ pc = "lines"
    /\ nLines < MaxLines
    /\ \E player \in Names, win \in Chips :
        LET r == potWin(players, playerKeys, table, player, win)
        IN  /\ Apply(r)
            /\ last' = Step("win", player, win, FALSE, "", <<>>)
            /\ wins' = IF r.err = NoError
                       THEN [wins EXCEPT ![<<player, table>>] = @ + win]
                       ELSE wins
    /\ UNCHANGED <<seats, contribs>>

\* the contributions of potString applied before the first missing pair
RECURSIVE Contributed(_, _, _, _)
Contributed(P, t, potString, acc) ==
    IF potString = <<>> \/ ~hasPair(P, Head(potString).player, t) THEN acc
    ELSE Contributed(P, t, Tail(potString),
                     [acc EXCEPT ![<<Head(potString).player, t>>] = @ + Head(potString).amount])

PotLine ==
    /\ pc = "lines"
    /\ nLines < MaxLines
    /\ \E potString \in PotStrings :
        /\ Apply(potContribution(players, playerKeys, table, potString))
        /\ last' = Step("pot", "", 0, FALSE, "", potString)
        /\ contribs' = Contributed(players, table, potString, contribs)
    /\ UNCHANGED <<seats, wins>>

\* lines 542-554, at the end of the hand's text
EndHand ==
    /\ pc = "lines"
    /\ LET r == sweep(players, playerKeys, 1, handTime, table, handNumber, seats)
       IN  /\ players' = r.players
           /\ csvRows' = csvRows \o r.rows
    /\ pc' = "replay"
    /\ lastSeats' = [lastSeats EXCEPT ![table] = seats]
    /\ last' = Step("sweep", "", 0, FALSE, "", <<>>)
    /\ prev' = Snapshot
    /\ UNCHANGED <<skipPriorHands, tables, tableKeys, playerKeys, warnings, nHands, handNumber,
                   handTime, table, seats, nLines, sumIndex, csvBalances, netBalance,
                   wins, contribs, seen1, before1, book>>
    /\ UNCHANGED xvars

\* lines 567-585: one turn of "for table in tables"; the first one follows the
\* last hand of the sorted list
SummarizeTable ==
    /\ pc \in {"replay", "summary"}
    /\ sumIndex <= Len(tableKeys)
    /\ LET t == tableKeys[sumIndex]
       IN  /\ table' = t
           /\ IF LATEST \notin DOMAIN tables[t]
              THEN \* str(tables[table][LATEST]) raises KeyError at line 570
                   /\ pc' = "crashed"
                   /\ UNCHANGED <<players, csvRows, sumIndex>>
              ELSE LET r == finalize(players, playerKeys, 1, tables, t)
                   IN  /\ players' = r.players
                       /\ csvRows' = csvRows \o r.rows
                       /\ sumIndex' = sumIndex + 1
                       /\ pc' = "summary"
    /\ last' = Step("summary", "", 0, FALSE, "", <<>>)
    /\ prev' = Snapshot
    /\ UNCHANGED <<skipPriorHands, tables, tableKeys, playerKeys, warnings, nHands, handNumber,
                   handTime, seats, nLines, csvBalances, netBalance, wins, contribs,
                   lastSeats, seen1, before1, book>>
    /\ UNCHANGED xvars

\* lines 587-632: the final tally of every player and the net balance
FinalTally ==
    /\ pc = "summary"
    /\ sumIndex > Len(tableKeys)
    /\ csvBalances' = [i \in 1..Len(playerKeys) |-> balanceRow(players, playerKeys[i])]
    /\ netBalance' = tally(players, playerKeys, 1)
    /\ pc' = "done"
    /\ last' = Step("tally", "", 0, FALSE, "", <<>>)
    /\ prev' = Snapshot
    /\ UNCHANGED <<skipPriorHands, tables, tableKeys, players, playerKeys, csvRows, warnings,
                   nHands, handNumber, handTime, table, seats, nLines, sumIndex,
                   wins, contribs, lastSeats, seen1, before1, book>>
    /\ UNCHANGED xvars

Next ==
    \/ StartHand
    \/ SeatLine
    \/ AddOnLine
    \/ WinLine
    \/ PotLine
    \/ EndHand
    \/ SummarizeTable
    \/ FinalTally

Spec == Init /\ [][Next]_vars

\* ---- the first pass: the files' lines to the hands dictionary -------------
\* A line of a file, by the regular expression it matches: "header" (line 369),
\* "table" (line 376), "seat" (line 428), "adds" (line 506), "blank".
Line(kind, who, local, n) == [kind |-> kind, who |-> who, local |-> local, n |-> n]
HeaderLine(number, localNumber, time) == Line("header", number, localNumber, time)
TableLine(name) == Line("table", name, "", 0)
SeatText(player, stack) == Line("seat", player, "", stack)
AddsText(player, additional) == Line("adds", player, "", additional)
BlankLine == Line("blank", "", "", 0)

HandNumbers == {"101", "102"}
HandTimes == {1, 2}
\* what follows a header in the files tried
Bodies ==
    { <<TableLine("T1"), SeatText("Al", 2)>>,
      <<SeatText("Al", 1)>>,
      <<TableLine("T1"), SeatText("Al", 1), BlankLine, AddsText("Al", 1)>>,
      <<TableLine("T2"), SeatText("Al", 1), BlankLine>> }
Blocks == {<<HeaderLine(h, "1", t)>> \o b : h \in HandNumbers, t \in HandTimes, b \in Bodies}
RECURSIVE BlockSeqs(_)
BlockSeqs(n) == IF n = 0 THEN {<<>>}
                ELSE {b \o f : b \in Blocks, f \in BlockSeqs(n - 1)}
\* the first file has 1..MaxBlocks hands; the second has one hand, and may
\* start with a line that follows no header of that file
FirstFiles == UNION {BlockSeqs(n) : n \in 1..MaxBlocks}
SecondFiles ==
    Blocks \cup {<<SeatText("Alice", 1), HeaderLine("102", "1", 2), TableLine("T1"),
                   SeatText("Al", 2)>>}

\* the dictionaries of the first pass and its handNumber
Pass(H, HK, T, TK, number) ==
    [hands |-> H, handKeys |-> HK, tables |-> T, tableKeys |-> TK, handNumber |-> number]

\* lines 368-389: one line of a file
extractLine(X, line, startHands) ==
    IF line.kind = "header"
    THEN Pass(SetKey(X.hands, line.who,
                     (LOCALKEY :> line.local) @@ (DATETIME :> line.n) @@ (TEXT :> <<>>)),
              IF line.who \in DOMAIN X.hands THEN X.handKeys ELSE Append(X.handKeys, line.who),
              X.tables, X.tableKeys, Some(line.who))
    ELSE IF X.handNumber # None
         THEN LET h == X.handNumber[1]
                  isTable == line.kind = "table"
                  H1 == IF isTable
                        THEN [X.hands EXCEPT ![h] = SetKey(@, TABLE, line.who)]
                        ELSE X.hands
                  new == isTable /\ line.who \notin DOMAIN X.tables
              IN  Pass([H1 EXCEPT ![h][TEXT] = Append(@, line)],
                       X.handKeys,
                       IF new THEN SetKey(X.tables, line.who, newTable(startHands))
                       ELSE X.tables,
                       IF new THEN Append(X.tableKeys, line.who) ELSE X.tableKeys,
                       X.handNumber)
         ELSE X

\* lines 366-390: the lines of one file from line i on
RECURSIVE extractLines(_, _, _, _)
extractLines(X, file, i, startHands) ==
    IF i > Len(file) THEN X
    ELSE extractLines(extractLine(X, file[i], startHands), file, i + 1, startHands)

\* lines 364-391: one file, read with handNumber = None at its start
extractFile(X, file, startHands) ==
    extractLines([X EXCEPT !.handNumber = None], file, 1, startHands)

\* ---- sorted(hands.keys(), key=DATETIME): a stable sort ---------------------
\* faulty variant for C11: k goes before the keys of its own time
RECURSIVE insertByTime_m(_, _, _)
insertByTime_m(sorted, k, H) ==
    IF sorted = <<>> THEN <<k>>
    ELSE IF H[Head(sorted)][DATETIME] < H[k][DATETIME]
         THEN <<Head(sorted)>> \o insertByTime_m(Tail(sorted), k, H)
         ELSE <<k>> \o sorted

\* faulty variant for C14: the keys are left in insertion order
sortedHands_m(HK, n, H) == SubSeq(HK, 1, n)

\* k goes behind every key of the sorted list whose time is not later
RECURSIVE insertByTime(_, _, _)
insertByTime(sorted, k, H) ==
    IF sorted = <<>> THEN <<k>>
    ELSE IF H[Head(sorted)][DATETIME] <= H[k][DATETIME]
         THEN <<Head(sorted)>> \o insertByTime(Tail(sorted), k, H)
         ELSE <<k>> \o sorted
RECURSIVE sortedHands(_, _, _)
sortedHands(HK, n, H) ==
    IF n = 0 THEN <<>>
    ELSE insertByTime(sortedHands(HK, n - 1, H), HK[n], H)

\* ---- the replay of one hand of the sorted list, lines 403-554 -------------
\* the players of the seat lines of a text
seatsOf(text) == {text[i].who : i \in {j \in DOMAIN text : text[j].kind = "seat"}}

\* lines 428-519: the block of one line of the text
lineBlock(P, K, line, time, t, number) ==
    IF line.kind = "seat"
    THEN seatSnapshot(P, K, time, t, number, line.who, line.n, FALSE)
    ELSE IF line.kind = "adds"
         THEN addOn(P, K, time, t, number, line.who, line.n)
         ELSE Result(P, K, <<>>, 0, NoError)

\* a block's result r followed by the result of the lines after it
joined(r, rest) ==
    Result(rest.players, rest.keys, r.rows \o rest.rows, r.warned + rest.warned, rest.err)

\* line 426: the lines of the hand's text from line i on, until one raises
RECURSIVE replayLines(_, _, _, _, _, _, _)
afterLine(r, text, i, time, t, number) ==
    IF r.err # NoError THEN r
    ELSE joined(r, replayLines(r.players, r.keys, text, i + 1, time, t, number))
replayLines(P, K, text, i, time, t, number) ==
    IF i > Len(text) THEN Result(P, K, <<>>, 0, NoError)
    ELSE afterLine(lineBlock(P, K, text[i], time, t, number), text, i, time, t, number)

\* the state of the second pass: tables, players and its key order, the rows,
\* the warnings, the exception raised
Run(T, P, K, rows, warned, err) ==
    [tables |-> T, players |-> P, keys |-> K, rows |-> rows, warned |-> warned, err |-> err]

\* lines 540-554 after the lines' result r: s is what the sweep leaves
withSweep(R, T, r, s) ==
    Run(T, s.players, r.keys, R.rows \o r.rows \o s.rows, R.warned + r.warned, NoError)

\* lines 426-554 of hand h, the tables being T after the loop head
sweptHand(R, H, h, T, r) ==
    IF r.err # NoError
    THEN Run(T, r.players, r.keys, R.rows \o r.rows, R.warned + r.warned, r.err)
    ELSE withSweep(R, T, r,
                   sweep(r.players, r.keys, 1, H[h][DATETIME], H[h][TABLE], h,
                         seatsOf(H[h][TEXT])))

\* lines 410-554 of hand h: g is what the gate and the bookkeeping give
gatedHand(R, H, h, g) ==
    IF g.skip THEN [R EXCEPT !.tables = g.tables]
    ELSE sweptHand(R, H, h, g.tables,
                   replayLines(R.players, R.keys, H[h][TEXT], 1, H[h][DATETIME],
                               H[h][TABLE], h))

\* lines 404-554: one turn of the loop over the sorted hands, for hand h
replayHand(R, H, h) ==
    IF TABLE \notin DOMAIN H[h]
    THEN \* hands[handNumber][TABLE] raises KeyError at line 406
         [R EXCEPT !.err = "KeyError"]
    ELSE gatedHand(R, H, h,
                   startGate(R.tables, H[h][TABLE], H[h][LOCALKEY], H[h][DATETIME], h))

\* ---- the whole run as a function of the files -----------------------------
RECURSIVE extractFiles(_, _, _, _)
extractFiles(X, fs, i, startHands) ==
    IF i > Len(fs) THEN X
    ELSE extractFiles(extractFile(X, fs[i], startHands), fs, i + 1, startHands)

RECURSIVE replayFrom(_, _, _, _)
replayFrom(R, H, ord, i) ==
    IF i > Len(ord) \/ R.err # NoError THEN R
    ELSE replayFrom(replayHand(R, H, ord[i]), H, ord, i + 1)

\* lines 567-585: the summary loop from table TK[i] on
RECURSIVE summarizeFrom(_, _, _)
summarizeFrom(R, TK, i) ==
    IF i > Len(TK) \/ R.err # NoError THEN R
    ELSE IF LATEST \notin DOMAIN R.tables[TK[i]]
         THEN [R EXCEPT !.err = "KeyError"]
         ELSE LET f == finalize(R.players, R.keys, 1, R.tables, TK[i])
              IN  summarizeFrom([R EXCEPT !.players = f.players, !.rows = @ \o f.rows],
                                TK, i + 1)

\* lines 597-624: what the tally says of each player
settlement(P) ==
    {[Player |-> p, TotalIn |-> P[p][CashIn], TotalOut |-> P[p][CashOut],
      Disposition |-> balanceRow(P, p).Disposition, Difference |-> balanceRow(P, p).Amount]
     : p \in DOMAIN P}

\* the settlement printed for the files fs, or the exception that ended the run
Outcome(fs, startHands) ==
    LET X == extractFiles(Pass(<<>>, <<>>, <<>>, <<>>, None), fs, 1, startHands)
        ord == sortedHands(X.handKeys, Len(X.handKeys), X.hands)
        R == replayFrom(Run(X.tables, <<>>, <<>>, <<>>, 0, NoError), X.hands, ord, 1)
        S == summarizeFrom(R, X.tableKeys, 1)
    IN  [err |-> S.err, settled |-> IF S.err = NoError THEN settlement(S.players) ELSE {}]

\* ---- the run on files, pass by pass ---------------------------------------
InitFiles ==
    /\ pc = "extract"
    /\ skipPriorHands = FALSE
    /\ \E f \in FirstFiles, g \in SecondFiles : files = <<f, g>>
    /\ fileNo = 0
    /\ hands = <<>>
    /\ handKeys = <<>>
    /\ order = <<>>
    /\ nReplayed = 0
    /\ tables = <<>>
    /\ tableKeys = <<>>
    /\ players = <<>>
    /\ playerKeys = <<>>
    /\ csvRows = <<>>
    /\ warnings = 0
    /\ nHands = 0
    /\ handNumber = ""
    /\ handTime = 0
    /\ table = ""
    /\ seats = {}
    /\ nLines = 0
    /\ sumIndex = 1
    /\ csvBalances = <<>>
    /\ netBalance = 0
    /\ last = Step("init", "", 0, FALSE, "", <<>>)
    /\ prev = [players |-> <<>>, rows |-> 0, warnings |-> 0, tables |-> <<>>,
               pc |-> "extract", table |-> "", lastSeats |-> [t \in TableNames |-> {}]]
    /\ lastSeats = [t \in TableNames |-> {}]
    /\ wins = [x \in Pairs |-> 0]
    /\ contribs = [x \in Pairs |-> 0]
    /\ seen1 = [t \in TableNames |-> FALSE]
    /\ before1 = [t \in TableNames |-> 0]
    /\ book = [t \in TableNames |-> NoBook]

\* lines 364-391: one turn of "for filename in filesToProcess"
ExtractFile ==
    /\ pc = "extract"
    /\ fileNo < Len(files)
    /\ LET X == extractFile(Pass(hands, handKeys, tables, tableKeys, None),
                            files[fileNo + 1], ~skipPriorHands)
       IN  /\ hands' = X.hands
           /\ handKeys' = X.handKeys
           /\ tables' = X.tables
           /\ tableKeys' = X.tableKeys
    /\ fileNo' = fileNo + 1
    /\ last' = Step("file", "", 0, FALSE, "", <<>>)
    /\ prev' = Snapshot
    /\ UNCHANGED <<pc, skipPriorHands, players, playerKeys, csvRows, warnings, nHands,
                   handNumber, handTime, table, seats, nLines, sumIndex, csvBalances,
                   netBalance, wins, contribs, lastSeats, seen1, before1, book,
                   files, order, nReplayed>>

\* line 403: the list the replay loop goes through; with no hand the loop is over
SortHands ==
    /\ pc = "extract"
    /\ fileNo = Len(files)
    /\ order' = sortedHands(handKeys, Len(handKeys), hands)
    /\ pc' = IF handKeys = <<>> THEN "replay" ELSE "sorted"
    /\ last' = Step("sort", "", 0, FALSE, "", <<>>)
    /\ prev' = Snapshot
    /\ UNCHANGED <<skipPriorHands, tables, tableKeys, players, playerKeys, csvRows, warnings,
                   nHands, handNumber, handTime, table, seats, nLines, sumIndex,
                   csvBalances, netBalance, wins, contribs, lastSeats, seen1, before1, book,
                   files, fileNo, hands, handKeys, nReplayed>>

\* what the turn for hand h leaves, R being the result of its code
Replayed(h, known, R) ==
    /\ handNumber' = h
    /\ handTime' = hands[h][DATETIME]
    /\ table' = IF known THEN hands[h][TABLE] ELSE table
    /\ tables' = R.tables
    /\ players' = R.players
    /\ playerKeys' = R.keys
    /\ csvRows' = R.rows
    /\ warnings' = R.warned
    /\ seats' = seatsOf(hands[h][TEXT])
    /\ lastSeats' = IF known /\ R.err = NoError
                    THEN [lastSeats EXCEPT ![hands[h][TABLE]] = seatsOf(hands[h][TEXT])]
                    ELSE lastSeats
    /\ book' = IF known
               THEN [book EXCEPT ![hands[h][TABLE]] = Booked(@, FALSE, hands[h][DATETIME], h)]
               ELSE book
    /\ pc' = IF R.err # NoError THEN "crashed"
             ELSE IF nReplayed + 1 = Len(order) THEN "replay" ELSE "sorted"

\* lines 403-554: one turn of the replay loop, a whole hand
ReplayHand ==
    /\ pc = "sorted"
    /\ nReplayed < Len(order)
    /\ Replayed(order[nReplayed + 1], TABLE \in DOMAIN hands[order[nReplayed + 1]],
                replayHand(Run(tables, players, playerKeys, csvRows, warnings, NoError),
                           hands, order[nReplayed + 1]))
    /\ nReplayed' = nReplayed + 1
    /\ last' = Step("hand", "", 0, FALSE, "", <<>>)
    /\ prev' = Snapshot
    /\ UNCHANGED <<skipPriorHands, tableKeys, nHands, nLines, sumIndex, csvBalances,
                   netBalance, wins, contribs, seen1, before1,
                   files, fileNo, hands, handKeys, order>>

NextFiles ==
    \/ ExtractFile
    \/ SortHands
    \/ ReplayHand
    \/ SummarizeTable
    \/ FinalTally

SpecFiles == InitFiles /\ [][NextFiles]_vars

\* ---- vocabulary of the properties -----------------------------------------
\* the rows the step just taken appended to csvRows
NewRows == SubSeq(csvRows, prev.rows + 1, Len(csvRows))
RowsOf(rows, player) == SelectSeq(rows, LAMBDA r : r.Player = player)

\* the (player, table) pair the seat line just read is about, before that line
SeatKnown == last.op = "seat" /\ hasPair(prev.players, last.player, table)
SeatBefore == prev.players[last.player][table]
SeatNow == players[last.player][table]
\* before the line the pair was active: its flags were both false
SeatWasActive ==
    SeatKnown /\ WAITING \in DOMAIN SeatBefore
    /\ ~SeatBefore[WAITING] /\ ~SeatBefore[LEFT]
\* before the line the pair was waiting or had left
SeatWasAway ==
    SeatKnown /\ WAITING \in DOMAIN SeatBefore
    /\ (SeatBefore[WAITING] \/ SeatBefore[LEFT])

RECURSIVE SumOver(_, _)
SumOver(f, S) == IF S = {} THEN 0
                 ELSE LET x == CHOOSE y \in S : TRUE IN f[x] + SumOver(f, S \ {x})
ExistingPairs == {x \in Pairs : hasPair(players, x[1], x[2])}
TotalWins == SumOver(wins, Pairs)
TotalContribs == SumOver(contribs, Pairs)
TotalLatest == SumOver([x \in ExistingPairs |-> players[x[1]][x[2]][LATEST]], ExistingPairs)
TotalNet == SumOver([p \in DOMAIN players |-> players[p][CashIn] - players[p][CashOut]],
                    DOMAIN players)

C2_NewPlayer ==
    last.op = "seat" =>
        IF ~hasPair(prev.players, last.player, table)
        THEN /\ pc = "lines"
             /\ SeatNow[FIRST] = last.amount
             /\ SeatNow[CashIn] = last.amount
             /\ SeatNow[LATEST] = last.amount
             /\ players[last.player][CashIn] =
                    (IF last.player \in DOMAIN prev.players
                     THEN prev.players[last.player][CashIn] ELSE 0) + last.amount
             /\ NewRows = <<Row(handTime, table, handNumber, last.player, "initial buy in",
                                Some(last.amount), None)>>
        ELSE \A i \in DOMAIN NewRows : NewRows[i].Action # "initial buy in"

C2_Witness ==
    /\ last.op = "seat"
    /\ ~hasPair(prev.players, last.player, table)
    /\ last.player \in DOMAIN prev.players
    /\ last.amount = 2

StoodUpBy(player) ==
    LET before == prev.players[player][table]
    IN  /\ players[player][table][LEFT]
        /\ players[player][table][LATEST] = 0
        /\ players[player][table][CashOut] = before[CashOut] + before[LATEST]
        /\ players[player][CashOut] = prev.players[player][CashOut] + before[LATEST]
        /\ RowsOf(NewRows, player) =
               <<Row(handTime, table, handNumber, player, "stood up with",
                     None, Some(before[LATEST]))>>

C4_StandUpDetection ==
    last.op = "sweep" =>
        \A player \in prev.lastSeats[table] \ seats : StoodUpBy(player)

\* the same, for the players whose name starts no seated player's name
C4_StandUpUnlessPrefix ==
    last.op = "sweep" =>
        \A player \in prev.lastSeats[table] \ seats :
            ~inSeats(player, seats) => StoodUpBy(player)

\* ---- C5 -------------------------------------------------------------------
\* C5: with gating enabled, for every table: before the first hand of the
\* table with local number "1" no row carries the table, no player has state
\* at the table and the table counts no replayed hand; the hand with local
\* number "1" is itself replayed; and the table's skipped count is the number
\* of the table's hands that came before that hand.
C5_GateSuppression ==
    skipPriorHands =>
        /\ \A t \in DOMAIN tables :
            /\ ~seen1[t] =>
                /\ \A i \in DOMAIN csvRows : csvRows[i].Table # t
                /\ \A p \in DOMAIN players : t \notin DOMAIN players[p]
                /\ tables[t][COUNT] = 0
                /\ ~tables[t][STARTHANDS]
            /\ seen1[t] => (tables[t][STARTHANDS] /\ tables[t][COUNT] >= 1)
            /\ tables[t][SKIPPED] = before1[t]
        /\ (last.op = "start" /\ last.local = "1") =>
            /\ pc = "lines"
            /\ tables[table][COUNT] = prev.tables[table][COUNT] + 1
            /\ tables[table][LAST] = handNumber

\* a hand was skipped at the table, then its hand "1" was replayed and booked
C5_Witness ==
    /\ skipPriorHands
    /\ table \in DOMAIN tables
    /\ seen1[table] /\ before1[table] = 1 /\ tables[table][SKIPPED] = 1
    /\ \E i \in DOMAIN csvRows : csvRows[i].Table = table

\* ---- C6 -------------------------------------------------------------------
\* C6: a seat line whose amount A differs from latestStack L, for a pair
\* whose waiting or left flag is true, prints no warning and appends no
\* "adjusting for consistency" row; latestStack becomes A; a surplus is one
\* inbound row of A - L with amountIn and totalIn grown by it, a deficit is
\* one outbound row of L - A with amountOut and totalOut grown by it.
C6_WaitingLeftTolerance ==
    (SeatWasAway /\ SeatBefore[LATEST] # last.amount) =>
        LET L == SeatBefore[LATEST]
            A == last.amount
        IN  /\ pc = "lines"
            /\ warnings = prev.warnings
            /\ SeatNow[LATEST] = A
            /\ IF A > L
               THEN /\ NewRows = <<Row(handTime, table, handNumber, last.player,
                                       "add on while waiting", Some(A - L), None)>>
                    /\ SeatNow[CashIn] = SeatBefore[CashIn] + (A - L)
                    /\ players[last.player][CashIn] =
                           prev.players[last.player][CashIn] + (A - L)
                    /\ SeatNow[CashOut] = SeatBefore[CashOut]
                    /\ players[last.player][CashOut] = prev.players[last.player][CashOut]
               ELSE /\ NewRows = <<Row(handTime, table, handNumber, last.player,
                                       "reduction while waiting", None, Some(L - A))>>
                    /\ SeatNow[CashOut] = SeatBefore[CashOut] + (L - A)
                    /\ players[last.player][CashOut] =
                           prev.players[last.player][CashOut] + (L - A)
                    /\ SeatNow[CashIn] = SeatBefore[CashIn]
                    /\ players[last.player][CashIn] = prev.players[last.player][CashIn]

\* a waiting player's stack went from 2 to 1: one outbound row of 1
C6_Witness ==
    /\ SeatWasAway
    /\ SeatBefore[WAITING]
    /\ SeatBefore[LATEST] = 2 /\ last.amount = 1
    /\ Len(NewRows) = 1 /\ NewRows[1].AmountOut = Some(1)

\* ---- C7 -------------------------------------------------------------------
\* C7: a seat line for a pair with state whose amount equals latestStack
\* appends no row and leaves firstBuyIn, amountIn, amountOut, latestStack,
\* totalIn and totalOut as they were.
C7_SteadyState ==
    (SeatKnown /\ SeatBefore[LATEST] = last.amount) =>
        /\ pc = "lines"
        /\ NewRows = <<>>
        /\ warnings = prev.warnings
        /\ \A k \in {FIRST, CashIn, CashOut, LATEST} : SeatNow[k] = SeatBefore[k]
        /\ players[last.player][CashIn] = prev.players[last.player][CashIn]
        /\ players[last.player][CashOut] = prev.players[last.player][CashOut]

\* the second hand shows an active player the stack of the first hand
C7_Witness ==
    /\ SeatWasActive
    /\ SeatBefore[LATEST] = last.amount
    /\ handNumber = "2"
    /\ Len(csvRows) = 1

\* ---- C8 -------------------------------------------------------------------
\* what potString lists for player, summed
RECURSIVE PotSum(_, _)
PotSum(potString, player) ==
    IF potString = <<>> THEN 0
    ELSE (IF Head(potString).player = player THEN Head(potString).amount ELSE 0)
         + PotSum(Tail(potString), player)
PotPlayers(potString) == {potString[i].player : i \in DOMAIN potString}

\* the player has state at one table only, t, and the rows about the player
\* are a buy-in at t followed by a stand-up at t
BoughtInAndStoodUp(player, t) ==
    /\ hasPair(players, player, t)
    /\ DOMAIN players[player] = {CashIn, CashOut, t}
    /\ Len(RowsOf(csvRows, player)) = 2
    /\ RowsOf(csvRows, player)[1].Action = "initial buy in"
    /\ RowsOf(csvRows, player)[2].Action = "stood up with"

\* C8: a win line of W for a player with state at the hand's table raises
\* that pair's latestStack by W and changes nothing else; a contribution line
\* lowers the latestStack of each listed player by the amount listed and
\* changes nothing else; neither appends a row. And a player who buys in for
\* A, wins W with no contribution and is then stood up, is stood up with
\* amountOut A + W, has totalIn A and totalOut A + W, and is tallied as up by W.
C8_NonCashEvents ==
    /\ (last.op = "win" /\ hasPair(prev.players, last.player, table)) =>
        /\ pc = "lines"
        /\ NewRows = <<>>
        /\ players = [prev.players EXCEPT ![last.player][table][LATEST] = @ + last.amount]
    /\ (last.op = "pot"
        /\ \A p \in PotPlayers(last.pot) : hasPair(prev.players, p, table)) =>
        /\ pc = "lines"
        /\ NewRows = <<>>
        /\ DOMAIN players = DOMAIN prev.players
        /\ \A p \in DOMAIN players :
            /\ DOMAIN players[p] = DOMAIN prev.players[p]
            /\ \A k \in DOMAIN players[p] :
                IF k = table
                THEN players[p][k] = [prev.players[p][k] EXCEPT
                                         ![LATEST] = @ - PotSum(last.pot, p)]
                ELSE players[p][k] = prev.players[p][k]
    /\ \A x \in Pairs :
        (/\ BoughtInAndStoodUp(x[1], x[2])
         /\ wins[x] > 0 /\ contribs[x] = 0
         /\ players[x[1]][x[2]][LATEST] = 0) =>
            LET buyIn == RowsOf(csvRows, x[1])[1]
                out == RowsOf(csvRows, x[1])[2]
            IN  /\ out.AmountOut = Some(Cell(buyIn.AmountIn) + wins[x])
                /\ out.AmountIn = None
                /\ players[x[1]][CashIn] = Cell(buyIn.AmountIn)
                /\ players[x[1]][CashOut] = Cell(buyIn.AmountIn) + wins[x]
                /\ pc = "done" =>
                    \E i \in DOMAIN csvBalances :
                        csvBalances[i] = [Player |-> x[1], Disposition |-> POSITIVE_STATE,
                                          Amount |-> wins[x]]

\* the scenario itself: bought in for 2, won 1, absent from the next hand
C8_Witness ==
    /\ pc = "done"
    /\ BoughtInAndStoodUp("Alice", "T1")
    /\ wins[<<"Alice", "T1">>] = 1 /\ contribs[<<"Alice", "T1">>] = 0
    /\ RowsOf(csvRows, "Alice")[1].AmountIn = Some(2)
    /\ RowsOf(csvRows, "Alice")[1].Hand = "1"
    /\ RowsOf(csvRows, "Alice")[2].Hand = "2"
    /\ players["Alice"][CashOut] = 3

\* a contribution line was applied
C8_WitnessPot == last.op = "pot" /\ pc = "lines" /\ TotalContribs > 0

\* ---- C9 -------------------------------------------------------------------
\* C9 as stated: in the final tally a player with totalIn = totalOut gets a
\* disposition that is neither the net-up tag nor the net-down tag, with
\* difference 0; a player with totalIn > totalOut gets the net-down tag with
\* totalIn - totalOut; a player with totalIn < totalOut gets the net-up tag
\* with totalOut - totalIn.
C9_ThreeWayDisposition ==
    pc = "done" =>
        /\ Len(csvBalances) = Len(playerKeys)
        /\ \A i \in DOMAIN csvBalances :
            LET cashIn == players[playerKeys[i]][CashIn]
                cashOut == players[playerKeys[i]][CashOut]
                b == csvBalances[i]
            IN  /\ b.Player = playerKeys[i]
                /\ cashIn = cashOut =>
                    (b.Disposition \notin {POSITIVE_STATE, NEGATIVE_STATE} /\ b.Amount = 0)
                /\ cashIn > cashOut =>
                    (b.Disposition = NEGATIVE_STATE /\ b.Amount = cashIn - cashOut)
                /\ cashIn < cashOut =>
                    (b.Disposition = POSITIVE_STATE /\ b.Amount = cashOut - cashIn)

\* what the tally does for the two unequal cases
C9_UpAndDown ==
    pc = "done" =>
        /\ Len(csvBalances) = Len(playerKeys)
        /\ \A i \in DOMAIN csvBalances :
            LET cashIn == players[playerKeys[i]][CashIn]
                cashOut == players[playerKeys[i]][CashOut]
                b == csvBalances[i]
            IN  /\ b.Player = playerKeys[i]
                /\ cashIn = cashOut => b.Amount = 0
                /\ cashIn > cashOut =>
                    (b.Disposition = NEGATIVE_STATE /\ b.Amount = cashIn - cashOut)
                /\ cashIn < cashOut =>
                    (b.Disposition = POSITIVE_STATE /\ b.Amount = cashOut - cashIn)

\* ---- C10 ------------------------------------------------------------------
\* C10 as stated: a seat line showing A < latestStack L for an active pair
\* grows amountOut and totalOut by L - A and appends one "adjusting for
\* consistency" row with L - A in its amountOut cell and an empty amountIn.
C10_OutboundAdjustment ==
    (SeatWasActive /\ last.amount < SeatBefore[LATEST]) =>
        LET delta == SeatBefore[LATEST] - last.amount
        IN  /\ SeatNow[CashOut] = SeatBefore[CashOut] + delta
            /\ players[last.player][CashOut] = prev.players[last.player][CashOut] + delta
            /\ NewRows = <<Row(handTime, table, handNumber, last.player,
                               "adjusting for consistency - deducting ",
                               None, Some(delta))>>

\* the ledger half of C10: amountOut and totalOut do grow by L - A, and one
\* "adjusting for consistency - deducting " row is appended
C10_LedgerGrows ==
    (SeatWasActive /\ last.amount < SeatBefore[LATEST]) =>
        LET delta == SeatBefore[LATEST] - last.amount
        IN  /\ SeatNow[CashOut] = SeatBefore[CashOut] + delta
            /\ players[last.player][CashOut] = prev.players[last.player][CashOut] + delta
            /\ Len(NewRows) = 1
            /\ NewRows[1].Action = "adjusting for consistency - deducting "

\* ---- C11 ------------------------------------------------------------------
\* the header lines of all the files, in the order they are read
RECURSIVE HeadersFrom(_, _)
HeadersFrom(fs, i) ==
    IF i > Len(fs) THEN <<>>
    ELSE SelectSeq(fs[i], LAMBDA l : l.kind = "header") \o HeadersFrom(fs, i + 1)
Headers == HeadersFrom(files, 1)
HeaderNumbers == {Headers[i].who : i \in DOMAIN Headers}
\* where the hand number is first read, and the time its last header gives
CreatedAt(number) == CHOOSE i \in DOMAIN Headers :
    Headers[i].who = number /\ \A j \in 1..(i - 1) : Headers[j].who # number
LastTime(number) == Headers[CHOOSE i \in DOMAIN Headers :
    Headers[i].who = number /\ \A j \in (i + 1)..Len(Headers) : Headers[j].who # number].n

\* C11: no hand is replayed before every file is read; the replay goes
\* through all the hands, each once, in non-decreasing time, the time of a
\* hand being that of its last header; hands of equal time are taken in the
\* order their numbers were first read, also when a number was read again.
C11_ReplayOrder ==
    /\ (nReplayed > 0 \/ pc # "extract") => fileNo = Len(files)
    /\ pc # "extract" =>
        /\ Len(order) = Cardinality(HeaderNumbers)
        /\ {order[i] : i \in DOMAIN order} = HeaderNumbers
        /\ \A i \in DOMAIN order : hands[order[i]][DATETIME] = LastTime(order[i])
        /\ \A i, j \in DOMAIN order :
            i < j =>
                /\ LastTime(order[i]) <= LastTime(order[j])
                /\ LastTime(order[i]) = LastTime(order[j]) =>
                       CreatedAt(order[i]) < CreatedAt(order[j])
    /\ last.op = "hand" => handNumber = order[nReplayed]

\* 101 is read at time 1, 102 at time 2, then 101 again at time 2: both hands
\* have time 2 and 101 is replayed first
C11_Witness ==
    /\ last.op = "hand" /\ nReplayed = 2
    /\ Len(Headers) = 3
    /\ Headers[1].who = "101" /\ Headers[1].n = 1
    /\ Headers[2].who = "102" /\ Headers[2].n = 2
    /\ Headers[3].who = "101" /\ Headers[3].n = 2
    /\ order = <<"101", "102">>

\* ---- C12 ------------------------------------------------------------------
AllLeft == \A x \in ExistingPairs : players[x[1]][x[2]][LEFT]
EndedRows(player, t) ==
    SelectSeq(csvRows, LAMBDA r : r.Player = player /\ r.Table = t
                                  /\ r.Action = "ended table with")

\* one turn of the summary loop, for the table it is about: a pair not left is
\* closed with its latestStack, with one row at the table's last hand and
\* latest time; a pair already left, or of another table, is as it was
FinalizerTurn ==
    (last.op = "summary" /\ pc # "crashed") =>
        /\ DOMAIN players = DOMAIN prev.players
        /\ \A p \in DOMAIN players :
            /\ DOMAIN players[p] = DOMAIN prev.players[p]
            /\ \A k \in DOMAIN players[p] \ {CashIn, CashOut, table} :
                   players[p][k] = prev.players[p][k]
            /\ players[p][CashIn] = prev.players[p][CashIn]
            /\ IF table \in DOMAIN players[p] /\ ~prev.players[p][table][LEFT]
               THEN LET before == prev.players[p][table]
                    IN  /\ players[p][table] =
                               [before EXCEPT ![CashOut] = @ + before[LATEST],
                                              ![LATEST] = 0, ![LEFT] = TRUE]
                        /\ players[p][CashOut] = prev.players[p][CashOut] + before[LATEST]
                        /\ RowsOf(NewRows, p) =
                               <<Row(tables[table][LATEST], table, tables[table][LAST], p,
                                     "ended table with", None, Some(before[LATEST]))>>
               ELSE /\ players[p] = prev.players[p]
                    /\ RowsOf(NewRows, p) = <<>>

\* C12 as stated: once the replay of the hands is over the summary closes
\* every pair that has not left, each once, as FinalizerTurn says, and leaves
\* every pair with left = true.
C12_Finalizer ==
    /\ FinalizerTurn
    /\ \A x \in ExistingPairs : Len(EndedRows(x[1], x[2])) <= 1
    /\ (pc = "done" \/ (pc = "crashed" /\ last.op = "summary")) => AllLeft

\* the same for the runs whose summary loop comes to its end
C12_FinalizerWhenCompleted ==
    /\ FinalizerTurn
    /\ \A x \in ExistingPairs : Len(EndedRows(x[1], x[2])) <= 1
    /\ pc = "done" => AllLeft

\* ---- C13 ------------------------------------------------------------------
\* the step just taken began a hand of a table
HandBegun == last.op = "start" /\ pc # "crashed"

\* C13: a table's gate, once open, stays open and its skipped count stays as
\* it is; every hand of a table whose gate is open is replayed, whatever its
\* local number; the head of a hand changes no other table, and no other step
\* changes a gate or a skipped count; without gating every gate is open from
\* the start, every hand of a table is replayed and every skipped count is 0.
C13_GatePermanence ==
    /\ \A t \in DOMAIN tables :
        /\ prev.tables[t][STARTHANDS] =>
               (tables[t][STARTHANDS] /\ tables[t][SKIPPED] = prev.tables[t][SKIPPED])
        /\ (~HandBegun \/ t # table) =>
               (/\ tables[t][STARTHANDS] = prev.tables[t][STARTHANDS]
                /\ tables[t][SKIPPED] = prev.tables[t][SKIPPED])
        /\ ~skipPriorHands => (tables[t][STARTHANDS] /\ tables[t][SKIPPED] = 0)
    /\ (HandBegun /\ prev.tables[table][STARTHANDS]) =>
        /\ pc = "lines"
        /\ tables[table][COUNT] = prev.tables[table][COUNT] + 1
    /\ (HandBegun /\ ~skipPriorHands) => pc = "lines"

\* T1's gate is open, T2's is not; a hand of T1 with local number "2" is replayed
C13_Witness ==
    /\ skipPriorHands
    /\ HandBegun /\ last.local = "2" /\ pc = "lines"
    /\ table = "T1" /\ prev.tables["T1"][STARTHANDS]
    /\ "T2" \in DOMAIN tables /\ ~tables["T2"][STARTHANDS]

\* ---- C14 ------------------------------------------------------------------
Swapped == <<files[2], files[1]>>
\* no two headers of the files give the same time; no two the same hand number
HeaderTimesDiffer == \A i, j \in DOMAIN Headers : i # j => Headers[i].n # Headers[j].n
HeaderNumbersDiffer == \A i, j \in DOMAIN Headers : i # j => Headers[i].who # Headers[j].who
\* the run on the files ended as the run on the files in the other order does
SameAsSwapped ==
    /\ pc = "done" =>
        /\ Outcome(Swapped, ~skipPriorHands).err = NoError
        /\ Outcome(Swapped, ~skipPriorHands).settled = settlement(players)
    /\ pc = "crashed" => Outcome(Swapped, ~skipPriorHands).err # NoError

\* C14 as stated: when no two hands of the files have the same time, the
\* settlement of every player (totalIn, totalOut, disposition, difference) is
\* the same whichever file is given first.
C14_Determinism == HeaderTimesDiffer => SameAsSwapped

\* C14 amended: the same, when moreover no hand number is in two headers.
C14_DeterminismDistinctNumbers ==
    (HeaderTimesDiffer /\ HeaderNumbersDiffer) => SameAsSwapped

\* the earlier hand is in the second file, and the run ends with a settlement
C14_Witness ==
    /\ pc = "done"
    /\ HeaderTimesDiffer /\ HeaderNumbersDiffer
    /\ Len(Headers) = 2 /\ Headers[1].n = 2 /\ Headers[2].n = 1
    /\ order = <<Headers[2].who, Headers[1].who>>
    /\ \E p \in DOMAIN players : players[p][CashOut] = 2

\* ---- C15 ------------------------------------------------------------------
PairRows(player, t) == SelectSeq(csvRows, LAMBDA r : r.Player = player /\ r.Table = t)

\* C15: an add-on line of X raises the player's totalIn and the pair's
\* amountIn and latestStack by X and appends exactly one "add on" row with
\* amountIn = X; a pair that did not exist is created with all amounts 0
\* first, and no "initial buy in" row is appended for it, by that line or by
\* a later one: an "initial buy in" row is always the first row of its pair.
C15_AddOn ==
    /\ last.op = "add on" =>
        LET p == last.player
            X == last.amount
            known == hasPair(prev.players, p, table)
            before == IF known THEN prev.players[p][table] ELSE newPair
            totalIn == IF p \in DOMAIN prev.players THEN prev.players[p][CashIn] ELSE 0
            totalOut == IF p \in DOMAIN prev.players THEN prev.players[p][CashOut] ELSE 0
        IN  /\ pc = "lines"
            /\ players[p][table] = [before EXCEPT ![CashIn] = @ + X, ![LATEST] = @ + X]
            /\ players[p][CashIn] = totalIn + X
            /\ players[p][CashOut] = totalOut
            /\ NewRows = <<Row(handTime, table, handNumber, p, "add on", Some(X), None)>>
            /\ \A q \in DOMAIN prev.players :
                   \A k \in DOMAIN prev.players[q] :
                       (q # p \/ k \notin {CashIn, table}) =>
                           players[q][k] = prev.players[q][k]
    /\ \A x \in ExistingPairs :
        \A i \in DOMAIN PairRows(x[1], x[2]) :
            PairRows(x[1], x[2])[i].Action = "initial buy in" => i = 1

\* a pair made by an add-on line is later shown by a seat line with its stack
C15_Witness ==
    /\ last.op = "seat" /\ pc = "lines"
    /\ Len(PairRows(last.player, table)) = 1
    /\ PairRows(last.player, table)[1].Action = "add on"
    /\ players[last.player][table][FIRST] = 0
    /\ players[last.player][table][CashIn] = 1

\* ---- C16 ------------------------------------------------------------------
\* the lines of a text before its first blank line
RECURSIVE bodyOf(_)
bodyOf(text) ==
    IF text = <<>> \/ Head(text).kind = "blank" THEN <<>>
    ELSE <<Head(text)>> \o bodyOf(Tail(text))
PriorKeys == SelectSeq(playerKeys, LAMBDA p : p \in DOMAIN prev.players)
BodyReplay ==
    replayHand(Run(prev.tables, prev.players, PriorKeys, SubSeq(csvRows, 1, prev.rows),
                   prev.warnings, NoError),
               [hands EXCEPT ![handNumber][TEXT] = bodyOf(@)], handNumber)

\* C16: a hand's body ends at its first blank line: the record of a hand holds
\* no seat or add-on line from behind a blank line, and the replay of a hand
\* leaves the players and the rows that the lines before the blank line give.
C16_HandBodyBoundary ==
    /\ \A h \in DOMAIN hands :
           \A i \in DOMAIN hands[h][TEXT] :
               hands[h][TEXT][i].kind \in {"seat", "adds"} =>
                   \A j \in 1..i : hands[h][TEXT][j].kind # "blank"
    /\ (last.op = "hand" /\ TABLE \in DOMAIN hands[handNumber]) =>
           /\ players = BodyReplay.players
           /\ csvRows = BodyReplay.rows

\* lines in front of the first header of a file belong to no hand
C16_LinesBeforeHeader ==
    /\ \A h \in DOMAIN hands :
           \A i \in DOMAIN hands[h][TEXT] : hands[h][TEXT][i].who # "Alice"
    /\ "Alice" \notin DOMAIN players

C16_StrayLineSeen ==
    /\ pc = "done"
    /\ Head(files[2]).kind = "seat"

\* ---- C18 ------------------------------------------------------------------
PairKeys(P, p) == DOMAIN P[p] \ {CashIn, CashOut}
NonNegative(P, key) ==
    \A p \in DOMAIN P :
        /\ P[p][key] >= 0
        /\ \A t \in PairKeys(P, p) : P[p][t][key] >= 0
NeverLess(P, Q, key) ==
    \A p \in DOMAIN P :
        /\ Q[p][key] >= P[p][key]
        /\ \A t \in PairKeys(P, p) : Q[p][t][key] >= P[p][t][key]

\* C18: totalIn and totalOut of every player and amountIn and amountOut of
\* every pair are never negative and never go down from one event to the next.
C18_NonNegativeMonotone ==
    /\ NonNegative(players, CashIn)
    /\ NonNegative(players, CashOut)
    /\ NeverLess(prev.players, players, CashIn)
    /\ NeverLess(prev.players, players, CashOut)

\* the amounts in are never negative and never go down
C18_AmountsInGrow ==
    /\ NonNegative(players, CashIn)
    /\ NeverLess(prev.players, players, CashIn)

\* the amounts out go below zero only by the close-out of a negative stack
C18_NegativeCloseOut ==
    (~NonNegative(players, CashOut) \/ ~NeverLess(prev.players, players, CashOut)) =>
        \E p \in DOMAIN prev.players :
            \E t \in PairKeys(prev.players, p) :
                \/ prev.players[p][t][LATEST] < 0
                \/ players[p][t][CashOut] < 0

\* ---- C19 ------------------------------------------------------------------
\* the pairs of the hand's table when its sweep began
AtTable == {p \in DOMAIN prev.players : table \in DOMAIN prev.players[p]}
\* the pair was there in an earlier hand
KnownBefore(player) ==
    \E i \in DOMAIN csvRows :
        /\ csvRows[i].Player = player
        /\ csvRows[i].Table = table
        /\ csvRows[i].Hand # handNumber
Untouched(player) ==
    /\ players[player][table] = prev.players[player][table]
    /\ players[player][CashOut] = prev.players[player][CashOut]
    /\ RowsOf(NewRows, player) = <<>>
KeptSeat(player) ==
    /\ ~players[player][table][LEFT]
    /\ Untouched(player)

\* C19: at the sweep of a replayed hand, a player who had a seat line in the
\* last hand of the table and has none in this one is closed out with one
\* "stood up with" row; a player absent from this hand and from the last one
\* is left as it is, with no row; a player with a seat line in this hand is
\* not closed out and has left = false.
C19_OneCloseOut ==
    last.op = "sweep" =>
        \A player \in AtTable :
            /\ player \in seats => KeptSeat(player)
            /\ player \in prev.lastSeats[table] \ seats => StoodUpBy(player)
            /\ (player \notin prev.lastSeats[table] \cup seats /\ KnownBefore(player)) =>
                   Untouched(player)

\* what the sweep does by the left flag: a pair that has left and has no seat
\* line is left as it is; a player with a seat line keeps the seat
C19_NoSecondCloseOut ==
    last.op = "sweep" =>
        \A player \in AtTable :
            /\ player \in seats => KeptSeat(player)
            /\ (player \notin seats /\ prev.players[player][table][LEFT]) =>
                   Untouched(player)
            /\ (player \in prev.lastSeats[table] \ seats /\ ~inSeats(player, seats)) =>
                   StoodUpBy(player)

C19_AbsentAgain ==
    /\ last.op = "sweep"
    /\ \E player \in AtTable :
        /\ player \notin prev.lastSeats[table] \cup seats
        /\ KnownBefore(player)
        /\ prev.players[player][table][LEFT]
        /\ prev.players[player][table][CashOut] > 0

\* ---- C20 ------------------------------------------------------------------
\* C20: for every table, handCount is the number of its replayed hands,
\* handCount + skippedCount the number of its hands met by the replay loop,
\* lastHandId the number of its last replayed hand, earliestTimestamp and
\* latestTimestamp the times of its first and last replayed hands, and
\* earliestTimestamp <= latestTimestamp when handCount > 0; a skipped hand
\* changes nothing but the skippedCount of its table.
C20_TableBookkeeping ==
    /\ \A t \in DOMAIN tables :
        /\ tables[t][COUNT] = book[t].replayed
        /\ tables[t][COUNT] + tables[t][SKIPPED] = book[t].met
        /\ tables[t][LAST] = book[t].number
        /\ tables[t][EARLIEST] = book[t].first
        /\ LATEST \in DOMAIN tables[t] <=> book[t].replayed > 0
        /\ book[t].replayed > 0 =>
            /\ tables[t][LATEST] = book[t].latest
            /\ tables[t][EARLIEST] # None
            /\ tables[t][EARLIEST][1] <= tables[t][LATEST][1]
    /\ (last.op = "start" /\ pc = "replay") =>
        /\ tables = [prev.tables EXCEPT ![table][SKIPPED] = @ + 1]
        /\ players = prev.players
        /\ NewRows = <<>>
        /\ warnings = prev.warnings
        /\ lastSeats = prev.lastSeats

\* a table whose first hand was skipped and whose second hand is replayed
C20_Witness ==
    /\ last.op = "start" /\ pc = "lines"
    /\ tables[table][SKIPPED] = 1
    /\ tables[table][COUNT] = 1
    /\ tables[table][EARLIEST] = tables[table][LATEST]

C20_WitnessTwoHands ==
    /\ last.op = "start" /\ pc = "lines"
    /\ tables[table][COUNT] = 2
    /\ tables[table][EARLIEST][1] < tables[table][LATEST][1]

\* ---- C17 ------------------------------------------------------------------
NoTableLine == last.op = "hand" /\ TABLE \notin DOMAIN hands[handNumber]

\* C17: a hand with no Table line is replayed at its place in the order of
\* the times: every seat line of its text has its effect (the player of the
\* line is known to the ledger from then on) before any exception is raised,
\* and what the hands before it wrote is kept.
C17_MissingTable ==
    NoTableLine =>
        /\ order[nReplayed] = handNumber
        /\ \A p \in seatsOf(hands[handNumber][TEXT]) : p \in DOMAIN players
        /\ \A q \in DOMAIN prev.players : q \in DOMAIN players
        /\ Len(csvRows) >= prev.rows

\* the exception is raised at the head of the loop: nothing of the hand is
\* replayed, and what the hands before it wrote is kept as it was
C17_RaisedAtLoopHead ==
    NoTableLine =>
        /\ order[nReplayed] = handNumber
        /\ pc = "crashed"
        /\ players = prev.players
        /\ tables = prev.tables
        /\ Len(csvRows) = prev.rows
        /\ warnings = prev.warnings

C17_AfterAppliedHand ==
    /\ NoTableLine
    /\ nReplayed = 2
    /\ seatsOf(hands[handNumber][TEXT]) # {}
    /\ prev.rows > 0
    /\ "Al" \in DOMAIN players

\* ---- C21 ------------------------------------------------------------------
\* the pot wins less the pot contributions applied to the player's pairs
PotGain(p) == SumOver([t \in TableNames |-> wins[<<p, t>>] - contribs[<<p, t>>]], TableNames)
PairIdentity ==
    \A x \in ExistingPairs :
        players[x[1]][x[2]][LATEST] =
            players[x[1]][x[2]][CashIn] - players[x[1]][x[2]][CashOut]
            + wins[x] - contribs[x]

\* C21: for every pair, latestStack = amountIn - amountOut + the pot wins
\* applied to the pair - the pot contributions applied to the pair; and after
\* finalization each player's totalOut - totalIn is the player's wins less
\* the player's contributions.
C21_AccountingIdentity ==
    /\ PairIdentity
    /\ pc = "done" =>
        \A p \in DOMAIN players : players[p][CashOut] - players[p][CashIn] = PotGain(p)

\* the identity of the pairs alone, and what it gives after finalization: the
\* latestStack still on the player's pairs is missing from totalOut
C21_IdentityWithResidue ==
    /\ PairIdentity
    /\ pc = "done" =>
        \A p \in DOMAIN players :
            players[p][CashOut] - players[p][CashIn] =
                PotGain(p)
                - SumOver([t \in TableNames |->
                              IF t \in DOMAIN players[p] THEN players[p][t][LATEST] ELSE 0],
                          TableNames)

C21_IdentitySeen ==
    /\ pc = "done"
    /\ \E x \in ExistingPairs :
        /\ wins[x] > 0
        /\ players[x[1]][x[2]][CashOut] > players[x[1]][x[2]][CashIn]

\* ---- C22 ------------------------------------------------------------------
TablesOf(p) == DOMAIN players[p] \ {CashIn, CashOut}
OverTables(p, key) == SumOver([t \in TablesOf(p) |-> players[p][t][key]], TablesOf(p))

\* C22: for every player, totalIn is the sum of amountIn over the player's
\* tables and totalOut is the sum of amountOut over the player's tables.
C22_Aggregation ==
    \A p \in DOMAIN players :
        /\ players[p][CashIn] = OverTables(p, CashIn)
        /\ players[p][CashOut] = OverTables(p, CashOut)

\* a player with state at two tables and money in and out
C22_Witness ==
    \E p \in DOMAIN players :
        /\ Cardinality(TablesOf(p)) = 2
        /\ \A t \in TablesOf(p) : players[p][t][CashIn] > 0
        /\ players[p][CashOut] > 0

\* ---- C23 ------------------------------------------------------------------
CellAmount(cell) == IF cell = None THEN 0 ELSE cell[1]
RECURSIVE RowsIn(_)
RowsIn(rows) == IF rows = <<>> THEN 0 ELSE CellAmount(Head(rows).AmountIn) + RowsIn(Tail(rows))
RECURSIVE RowsOut(_)
RowsOut(rows) ==
    IF rows = <<>> THEN 0 ELSE CellAmount(Head(rows).AmountOut) + RowsOut(Tail(rows))
Deducting(r) == r.Action = "adjusting for consistency - deducting "

\* C23: for every player, the Amount In cells of the player's rows add up to
\* the player's totalIn and the Amount Out cells to the player's totalOut.
C23_LedgerEventConsistency ==
    \A p \in DOMAIN players :
        /\ RowsIn(RowsOf(csvRows, p)) = players[p][CashIn]
        /\ RowsOut(RowsOf(csvRows, p)) = players[p][CashOut]

\* the same with the amount of a deducting row read as an amount out
C23_DeductionsMoved ==
    \A p \in DOMAIN players :
        LET rows == RowsOf(csvRows, p)
            moved == RowsIn(SelectSeq(rows, Deducting))
        IN  /\ RowsIn(rows) - moved = players[p][CashIn]
            /\ RowsOut(rows) + moved = players[p][CashOut]

C23_DeductionSeen ==
    \E i \in DOMAIN csvRows :
        /\ Deducting(csvRows[i])
        /\ players[csvRows[i].Player][CashOut] > 0

\* ---- C24 ------------------------------------------------------------------
\* C24: after finalization every pair has latestStack = 0.
C24_FullCashOut ==
    pc = "done" => \A x \in ExistingPairs : players[x[1]][x[2]][LATEST] = 0

\* after finalization every pair is marked left; what an add-on, a win or a
\* contribution put on a pair after its last close-out stays on latestStack
C24_AllLeftAtEnd ==
    pc = "done" => \A x \in ExistingPairs : players[x[1]][x[2]][LEFT]

\* the close-outs themselves leave nothing on the pair
C24_CloseOutEmpties ==
    last.op \in {"sweep", "summary"} =>
        \A x \in ExistingPairs :
            (x[1] \in DOMAIN prev.players /\ x[2] \in DOMAIN prev.players[x[1]]
             /\ ~prev.players[x[1]][x[2]][LEFT] /\ players[x[1]][x[2]][LEFT]) =>
                players[x[1]][x[2]][LATEST] = 0

C24_ResidueSeen ==
    /\ pc = "done"
    /\ \E x \in ExistingPairs :
        /\ players[x[1]][x[2]][LATEST] > 0
        /\ players[x[1]][x[2]][CashOut] > 0

\* ---- C25 ------------------------------------------------------------------
\* C25: the summary of a table comes to its end whether or not a hand of the
\* table was replayed: for a table with no replayed hand it reports handCount
\* 0 and no earliest time and goes on to the next table, and the run ends
\* with the tally.
C25_RunCompletion ==
    last.op = "summary" =>
        /\ pc = "summary"
        /\ tables[table][COUNT] = 0 => tables[table][EARLIEST] = None

\* the turn of the summary for a table raises exactly when the table has no
\* replayed hand, and then nothing is closed out and no tally is made
C25_SummaryRaises ==
    last.op = "summary" =>
        /\ pc = "crashed" <=> tables[table][COUNT] = 0
        /\ pc = "crashed" =>
            /\ LATEST \notin DOMAIN tables[table]
            /\ players = prev.players
            /\ NewRows = <<>>
            /\ csvBalances = <<>>

\* with gating, a table all of whose hands were skipped, after another
\* table's summary went through
C25_NeverOpened ==
    /\ last.op = "summary" /\ pc = "crashed"
    /\ skipPriorHands
    /\ tables[table][SKIPPED] >= 1
    /\ sumIndex = 2

\* ---- C26 ------------------------------------------------------------------
\* the step just taken belongs to the replay of a hand of the table
InHand == last.op \in {"start", "seat", "add on", "win", "pot", "sweep"} /\ table # ""
OthersKept(P, Q, t) ==
    \A p \in DOMAIN Q :
        \A u \in (DOMAIN Q[p] \ {CashIn, CashOut, t}) :
            /\ p \in DOMAIN P
            /\ u \in DOMAIN P[p]
            /\ Q[p][u] = P[p][u]

\* C26: a step of the replay of a hand at table T creates no pair of another
\* table, changes no pair of another table and changes no other table's
\* entry of the tables dictionary.
C26_TableIsolation ==
    InHand =>
        /\ OthersKept(prev.players, players, table)
        /\ \A p \in DOMAIN prev.players : DOMAIN prev.players[p] \subseteq DOMAIN players[p]
        /\ \A u \in DOMAIN tables \ {table} : tables[u] = prev.tables[u]

\* a close-out at one table of a player who keeps a stack at another table
C26_Witness ==
    /\ last.op = "sweep"
    /\ \E p \in DOMAIN players :
        \E u \in DOMAIN players[p] \ {CashIn, CashOut, table} :
            /\ table \in DOMAIN players[p]
            /\ players[p][table][LEFT]
            /\ ~prev.players[p][table][LEFT]
            /\ players[p][u][LATEST] > 0
            /\ ~players[p][u][LEFT]

\* ---- C27 ------------------------------------------------------------------
PairFields == {FIRST, CashIn, CashOut, LATEST, WAITING, LEFT}

\* C27: every pair has firstBuyIn, amountIn, amountOut, latestStack, waiting
\* and left defined from its creation on, and no seat line ends in a lookup
\* failure.
C27_StateCompleteness ==
    /\ \A x \in ExistingPairs : PairFields \subseteq DOMAIN players[x[1]][x[2]]
    /\ last.op = "seat" => pc # "crashed"

\* what a pair has from its creation on, and which seat lines raise: the
\* pair has no waiting field until a seat line or a close-out writes one, and
\* a seat line showing another amount than latestStack for such a pair raises
\* and changes nothing
C27_WaitingMissing ==
    /\ \A x \in ExistingPairs :
           (PairFields \ {WAITING}) \subseteq DOMAIN players[x[1]][x[2]]
    /\ last.op = "seat" =>
        /\ pc = "crashed" <=>
               /\ SeatKnown
               /\ WAITING \notin DOMAIN SeatBefore
               /\ SeatBefore[LATEST] # last.amount
        /\ pc = "crashed" =>
            /\ players = prev.players
            /\ NewRows = <<>>
            /\ PairRows(last.player, table)[1].Action = "add on"

C27_SeatAfterAddOn ==
    /\ last.op = "seat"
    /\ pc = "crashed"
    /\ prev.players[last.player][table][LATEST] = 1
    /\ last.amount = 2

====
